---- MODULE Spec2Model ----
(***************************************************************************)
(* Model of LegalRAGSystem (src/rag_system.py): the FAISS vector store     *)
(* with its two parallel arrays, its three persisted files, the filtered   *)
(* similarity search, the context and prompt texts and the chat facade     *)
(* built on them; and of the Streamlit page (src/app.py) that drives it,   *)
(* one script run of main() at a time.                                     *)
(***************************************************************************)
EXTENDS Integers, Sequences, FiniteSets, TLC

(***************************************************************************)
(* Bounds of the model.                                                    *)
(***************************************************************************)
\* longest corpus handed to build_vector_store
MaxChunks == 3
\* largest top_k handed to search / get_chat_response
MaxTopK == 2

(***************************************************************************)
(* Python values.                                                          *)
(***************************************************************************)
\* str values that the code inspects character by character are sequences
\* of one-character strings.
S_empty    == << >>
S_1872     == <<"1", "8", "7", "2">>
S_1860     == <<"1", "8", "6", "0">>
S_nan      == <<"n", "a", "n">>
S_Contract == <<"C", "o", "n", "t", "r", "a", "c", "t", " ", "A", "c", "t">>
S_Penal    == <<"P", "e", "n", "a", "l", " ", "C", "o", "d", "e">>
S_Old      == <<"O", "l", "d", " ", "A", "c", "t">>
S_act      == <<"a", "c", "t">>
S_CODE     == <<"C", "O", "D", "E">>
S_tax      == <<"t", "a", "x">>

UpperCase == <<"A", "B", "C", "D", "E", "F", "G", "H", "I", "J", "K", "L", "M",
               "N", "O", "P", "Q", "R", "S", "T", "U", "V", "W", "X", "Y", "Z">>
LowerCase == <<"a", "b", "c", "d", "e", "f", "g", "h", "i", "j", "k", "l", "m",
               "n", "o", "p", "q", "r", "s", "t", "u", "v", "w", "x", "y", "z">>
Digits    == <<"0", "1", "2", "3", "4", "5", "6", "7", "8", "9">>

\* str.lower()
StrLower(s) ==
    [i \in 1..Len(s) |->
        IF \E j \in 1..Len(UpperCase) : UpperCase[j] = s[i]
        THEN LowerCase[CHOOSE j \in 1..Len(UpperCase) : UpperCase[j] = s[i]]
        ELSE s[i]]

\* str.isdigit(): non-empty and every character a digit
StrIsDigit(s) ==
    /\ Len(s) > 0
    /\ \A i \in 1..Len(s) : \E d \in 1..Len(Digits) : Digits[d] = s[i]

DigitValue(c) == (CHOOSE d \in 1..Len(Digits) : Digits[d] = c) - 1

\* int(s) for a string of digits
RECURSIVE StrToInt(_)
StrToInt(s) ==
    IF Len(s) = 0 THEN 0
    ELSE StrToInt(SubSeq(s, 1, Len(s) - 1)) * 10 + DigitValue(s[Len(s)])

\* `sub in s` for str
StrContains(s, sub) ==
    \E i \in 0..(Len(s) - Len(sub)) :
        \A j \in 1..Len(sub) : s[i + j] = sub[j]

\* dict.get(key, default)
DictGet(d, key, default) == IF key \in DOMAIN d THEN d[key] ELSE default

(***************************************************************************)
(* The chunks the document processor hands over, and the embedding model.  *)
(***************************************************************************)
\* act_info of create_document_chunks: a flat dict; the chunk's own
\* chunk_id and chunk_type are NOT among its keys.
ActInfo(id, title, year, repealed, lang) ==
    [act_id |-> id, act_title |-> title, act_year |-> year,
     is_repealed |-> repealed, language_detected |-> lang]

ChunkContract ==
    [content |-> "Act Title: Contract Act Year: 1872 Status: Active",
     chunk_type |-> "overview", chunk_id |-> "A1_overview",
     metadata |-> ActInfo("A1", S_Contract, S_1872, FALSE, "english")]
ChunkPenal ==
    [content |-> "Act: Penal Code Section: Theft Content: whoever",
     chunk_type |-> "section", chunk_id |-> "A2_section_1",
     metadata |-> ActInfo("A2", S_Penal, S_1860, FALSE, "english")]
ChunkOld ==
    [content |-> "Act Title: Old Act Year: nan Status: Repealed",
     chunk_type |-> "overview", chunk_id |-> "A3_overview",
     metadata |-> ActInfo("A3", S_Old, S_nan, TRUE, "bengali")]

Chunks == {ChunkContract, ChunkPenal, ChunkOld}

Queries == {"contract law", "repealed code"}

\* SentenceTransformer.encode on one text: an opaque, deterministic map
\* from text to a vector (here two integer coordinates, not yet normalised).
Encode(text) ==
    CASE text = ChunkContract.content -> <<10, 0>>
      [] text = ChunkPenal.content    -> <<6, 8>>
      [] text = ChunkOld.content      -> <<-3, 4>>
      [] text = "contract law"        -> <<5, 0>>
      [] text = "repealed code"       -> <<0, 10>>
      [] text = "What rights do tenants have?" -> <<3, 4>>

\* length every vector has after faiss.normalize_L2 (1.0 in the code,
\* scaled so that the coordinates stay integers)
UnitLength == 5

VecNorm(v) == CHOOSE n \in 0..20 : n * n = v[1] * v[1] + v[2] * v[2]

\* faiss.normalize_L2
NormalizeL2(v) ==
    <<(v[1] * UnitLength) \div VecNorm(v), (v[2] * UnitLength) \div VecNorm(v)>>

\* inner product of IndexFlatIP
InnerProduct(u, v) == u[1] * v[1] + u[2] * v[2]

(***************************************************************************)
(* Filters: a dict with optional keys.  Every value carries its Python     *)
(* type, which _apply_filters tests with isinstance.  filters=None and an  *)
(* empty dict are both falsy at `if filters:` and are both the empty map.  *)
(***************************************************************************)
PyTuple(v) == [type |-> "tuple", val |-> v]
PyBool(v)  == [type |-> "bool", val |-> v]
PyStr(v)   == [type |-> "str", val |-> v]
PyList(v)  == [type |-> "list", val |-> v]

NoFilters == << >>

\* one optional entry: the empty map when the key is not supplied
Entry(key, choice) ==
    IF choice = {} THEN NoFilters ELSE key :> (CHOOSE v \in choice : TRUE)

YearRangeChoices  == {{}, {PyTuple(<<1800, 1870>>)}}
IsRepealedChoices == {{}, {PyBool(FALSE)}, {PyBool(TRUE)}}
LanguageChoices   == {{}, {PyStr("english")}}
KeywordsChoices   == {{}, {PyList(<<S_act>>)}, {PyList(<<S_CODE, S_tax>>)}}

Filters ==
    { Entry("year_range", y) @@ Entry("is_repealed", r)
        @@ Entry("language", l) @@ Entry("keywords", k) :
        y \in YearRangeChoices, r \in IsRepealedChoices,
        l \in LanguageChoices, k \in KeywordsChoices }

\* the filter with one key removed
WithoutKey(filters, key) ==
    [k \in (DOMAIN filters) \ {key} |-> filters[k]]

(***************************************************************************)
(* State.                                                                  *)
(***************************************************************************)
VARIABLES
    index,              \* self.index: None, or the vectors of a FAISS index
    documents,          \* self.documents
    document_metadata,  \* self.document_metadata
    files,              \* index.faiss, documents.pkl, metadata.pkl on disk
    persisted,          \* history: the corpus of the last build that
                        \* succeeded, while no later call has written a file
    ret,                \* the last call: its arguments and its outcome
    session,            \* st.session_state of the browser session
    widgets             \* the page the last script run left in the browser

vars == <<index, documents, document_metadata, files, persisted, ret,
          session, widgets>>

\* the in-memory store of the LegalRAGSystem
StoreOf == [index |-> index, documents |-> documents,
            document_metadata |-> document_metadata]

\* a session_state with no key yet, and no page rendered yet
NoSession == << >>
NoPage == [rerun |-> FALSE, rendered |-> {}]

NoIndex == [present |-> FALSE, vectors |-> << >>]
IndexOf(vectors) == [present |-> TRUE, vectors |-> vectors]

NoFile == [exists |-> FALSE, data |-> << >>]
FileOf(data) == [exists |-> TRUE, data |-> data]

\* the chunk sequences build_vector_store may be called with: at most
\* MaxChunks chunks of `chunks`, chunk_id being unique within a corpus
CorporaOver(chunks) ==
    { c \in UNION { [1..n -> chunks] : n \in 0..MaxChunks } :
        \A i, j \in DOMAIN c : i # j => c[i] # c[j] }

Corpora == CorporaOver(Chunks)

\* the corpora, queries and filters of the calls made over the life of a
\* store (Spec); the searches of SpecSearch draw from all of them
StoreCorpora == CorporaOver({ChunkContract, ChunkOld})
StoreQueries == {"contract law"}
StoreFilters == {NoFilters, "is_repealed" :> PyBool(FALSE)}

TopKs == 1..MaxTopK

(***************************************************************************)
(* _apply_filters (rag_system.py 157-180).                                 *)
(***************************************************************************)
\* the year_range branch, lines 160-165
YearRangePasses(metadata, value) ==
    LET year_str == DictGet(metadata, "act_year", S_empty)
    IN  IF year_str # S_empty /\ StrIsDigit(year_str)
        THEN value.val[1] <= StrToInt(year_str) /\ StrToInt(year_str) <= value.val[2]
        ELSE TRUE

\* the is_repealed branch, lines 167-169
IsRepealedPasses(metadata, value) ==
    DictGet(metadata, "is_repealed", FALSE) = value.val

\* the language branch, lines 171-173
LanguagePasses(metadata, value) ==
    DictGet(metadata, "language_detected", "") = value.val

\* mutant: all() in place of any()
KeywordsPassesAll(metadata, value) ==
    LET content_lower == StrLower(DictGet(metadata, "act_title", S_empty))
    IN  \A n \in 1..Len(value.val) :
            StrContains(content_lower, StrLower(value.val[n]))

\* the keywords branch, lines 175-178
KeywordsPasses(metadata, value) ==
    LET content_lower == StrLower(DictGet(metadata, "act_title", S_empty))
    IN  \E n \in 1..Len(value.val) :
            StrContains(content_lower, StrLower(value.val[n]))

\* mutant: the year_range branch without its isinstance(value, tuple)
FilterEntryPassesAnySequence(metadata, key, value) ==
    IF key = "year_range"
    THEN YearRangePasses(metadata, value)
    ELSE IF key = "is_repealed" /\ value.type = "bool"
    THEN IsRepealedPasses(metadata, value)
    ELSE IF key = "language" /\ value.type = "str"
    THEN LanguagePasses(metadata, value)
    ELSE IF key = "keywords" /\ value.type = "list"
    THEN KeywordsPasses(metadata, value)
    ELSE TRUE

\* one turn of the loop over filters.items(): FALSE when the turn returns
\* False, TRUE when it falls through to the next entry
FilterEntryPasses(metadata, key, value) ==
    IF key = "year_range" /\ value.type = "tuple"
    THEN YearRangePasses(metadata, value)
    ELSE IF key = "is_repealed" /\ value.type = "bool"
    THEN IsRepealedPasses(metadata, value)
    ELSE IF key = "language" /\ value.type = "str"
    THEN LanguagePasses(metadata, value)
    ELSE IF key = "keywords" /\ value.type = "list"
    THEN KeywordsPasses(metadata, value)
    ELSE TRUE

\* the keys in the order the app inserts them into the dict
FilterKeyOrder == <<"year_range", "is_repealed", "language", "keywords">>

\* mutant: `return True` indented into the loop, so that only the first
\* entry of the dict is ever tested
ApplyFiltersFirstEntryOnly(metadata, filters) ==
    \A n \in 1..Len(FilterKeyOrder) :
        (/\ FilterKeyOrder[n] \in DOMAIN filters
         /\ \A m \in 1..(n - 1) : FilterKeyOrder[m] \notin DOMAIN filters)
        => FilterEntryPasses(metadata, FilterKeyOrder[n], filters[FilterKeyOrder[n]])

ApplyFilters(metadata, filters) ==
    \A key \in DOMAIN filters : FilterEntryPasses(metadata, key, filters[key])

(***************************************************************************)
(* search (rag_system.py 119-155).                                         *)
(***************************************************************************)
\* score FAISS reports in a slot that holds no neighbour: below every
\* inner product of two normalised vectors
SentinelScore == 0 - (UnitLength * UnitLength) - 1
Sentinel == [score |-> SentinelScore, idx |-> -1]

\* self.index.search(query, k): the k nearest stored vectors by inner
\* product, best first, as (score, position) pairs with positions counted
\* from 0; slots beyond the stored vectors hold the sentinel.  FAISS fixes
\* the order of equal scores; the model allows every such order.
IndexSearch(vectors, qv, k) ==
    LET n == Len(vectors)
        Score(pos) == InnerProduct(vectors[pos + 1], qv)
        Rankings ==
            { p \in [1..n -> 0..(n - 1)] :
                /\ \A i, j \in 1..n : i # j => p[i] # p[j]
                /\ \A i, j \in 1..n : i < j => Score(p[i]) >= Score(p[j]) }
    IN  { [i \in 1..k |->
              IF i <= n THEN [score |-> Score(p[i]), idx |-> p[i]]
              ELSE Sentinel] : p \in Rankings }

\* mutant: the loop stops one result early
LoopStopsEarly(results, top_k) == Len(results) >= top_k - 1

\* mutant: the loop stops one result late
LoopStopsLate(results, top_k) == Len(results) > top_k

\* line 152: the loop ends once top_k results are collected
LoopStops(results, top_k) == Len(results) >= top_k

\* mutant: results.insert(0, result)
CollectInFront(results, result) == <<result>> \o results

\* line 150: results.append(result)
Collect(results, result) == Append(results, result)

\* lines 143-149
MakeResult(cand, metadata) ==
    [content |-> documents[cand.idx + 1],
     metadata |-> metadata,
     score |-> cand.score,
     chunk_id |-> DictGet(metadata, "chunk_id", "chunk_" \o ToString(cand.idx)),
     chunk_type |-> DictGet(metadata, "chunk_type", "unknown")]

Returned(value) == [raised |-> "none", value |-> value]
Raised(error)   == [raised |-> error, value |-> << >>]

\* lines 131-155: the loop over the candidates, from candidate i on
RECURSIVE SearchLoop(_, _, _, _, _)
SearchLoop(cands, i, results, top_k, filters) ==
    IF i > Len(cands) THEN Returned(results)
    ELSE IF cands[i].idx = -1
    THEN SearchLoop(cands, i + 1, results, top_k, filters)
    ELSE IF cands[i].idx >= Len(document_metadata)
    THEN Raised("IndexError")
    ELSE LET metadata == document_metadata[cands[i].idx + 1]
         IN  IF filters # NoFilters /\ ~ApplyFilters(metadata, filters)
             THEN SearchLoop(cands, i + 1, results, top_k, filters)
             ELSE IF cands[i].idx >= Len(documents)
             THEN Raised("IndexError")
             ELSE LET collected == Collect(results, MakeResult(cands[i], metadata))
                  IN  IF LoopStops(collected, top_k)
                      THEN Returned(collected)
                      ELSE SearchLoop(cands, i + 1, collected, top_k, filters)

\* mutant: search without the check of lines 121-122
SearchOutcomeUnguarded(cands, top_k, filters) ==
    SearchLoop(cands, 1, << >>, top_k, filters)

\* the whole of search, given the neighbours FAISS reported
SearchOutcome(cands, top_k, filters) ==
    IF ~index.present
    THEN Raised("ValueError: Vector store not built or loaded")
    ELSE SearchLoop(cands, 1, << >>, top_k, filters)

\* the neighbour lists FAISS may report for a query (one list, holding
\* nothing, when there is no index to ask)
\* mutant: a window of three times top_k
NeighboursWide(query, top_k) ==
    IF ~index.present THEN {<< >>}
    ELSE IndexSearch(index.vectors, NormalizeL2(Encode(query)), top_k * 3)

Neighbours(query, top_k) ==
    IF ~index.present THEN {<< >>}
    ELSE IndexSearch(index.vectors, NormalizeL2(Encode(query)), top_k * 2)

(***************************************************************************)
(* Persistence (rag_system.py 81-117).                                     *)
(***************************************************************************)
\* where a call into the file system or the embedding model may fail
BuildFaults == {"none", "encode", "write_index", "write_documents", "write_metadata"}
SaveFaults  == {"none", "write_index", "write_documents", "write_metadata"}
LoadFaults  == {"none", "read_index", "read_documents", "read_metadata"}

\* lines 84, 87-88, 90-91: the three writes, in this order; a write that
\* fails raises and leaves the later files as they were
WriteIndex(fs, idx)      == [fs EXCEPT !.index_faiss = FileOf(idx.vectors)]
WriteDocuments(fs, docs) == [fs EXCEPT !.documents_pkl = FileOf(docs)]
\* mutant: metadata.pkl receives the metadata of the first chunk only
WriteMetadataFirstOnly(fs, metas) ==
    [fs EXCEPT !.metadata_pkl = FileOf(SubSeq(metas, 1, 1))]
WriteMetadata(fs, metas) == [fs EXCEPT !.metadata_pkl = FileOf(metas)]

SaveFiles(fs, idx, docs, metas, fault) ==
    IF fault = "write_index" THEN fs
    ELSE IF fault = "write_documents" THEN WriteIndex(fs, idx)
    ELSE IF fault = "write_metadata" THEN WriteDocuments(WriteIndex(fs, idx), docs)
    ELSE WriteMetadata(WriteDocuments(WriteIndex(fs, idx), docs), metas)

NotPersisted == [valid |-> FALSE, chunks |-> << >>]

\* the history variable after a call that leaves the files as fs
PersistedAfter(fs) == IF fs = files THEN persisted ELSE NotPersisted

ContentsOf(chunks) == [i \in 1..Len(chunks) |-> chunks[i].content]
MetadataOf(chunks) == [i \in 1..Len(chunks) |-> chunks[i].metadata]

\* lines 66-74: one normalised vector per text, in the order of the texts
EmbedAll(texts) == [i \in 1..Len(texts) |-> NormalizeL2(Encode(texts[i]))]

\* mutant: a build that adds the chunks to the ones held
BuildOutcomeMerging(store, chunks, fault) ==
    LET texts == store.documents \o ContentsOf(chunks)
        metas == store.document_metadata \o MetadataOf(chunks)
        built == IndexOf(EmbedAll(texts))
        saved == SaveFiles(files, built, texts, metas, fault)
        assigned == [store EXCEPT !.documents = texts, !.document_metadata = metas]
    IN  IF fault = "encode"
        THEN [store |-> assigned, files |-> files, persisted |-> persisted,
              outcome |-> Raised("EncodeError")]
        ELSE IF Len(texts) = 0
        THEN
             [store |-> assigned, files |-> files, persisted |-> persisted,
              outcome |-> Raised("IndexError")]
        ELSE [store |-> [assigned EXCEPT !.index = built],
              files |-> saved,
              persisted |-> IF fault = "none"
                            THEN [valid |-> TRUE, chunks |-> chunks]
                            ELSE PersistedAfter(saved),
              outcome |-> IF fault = "none" THEN Returned(<< >>)
                          ELSE Raised("IOError")]

\* build_vector_store, lines 56-79, on a system whose fields are `store`:
\* the fields, the files and the outcome it leaves
BuildOutcome(store, chunks, fault) ==
    LET texts == ContentsOf(chunks)
        metas == MetadataOf(chunks)
        built == IndexOf(EmbedAll(texts))
        saved == SaveFiles(files, built, texts, metas, fault)
        assigned == [store EXCEPT !.documents = texts, !.document_metadata = metas]
    IN  IF fault = "encode"
        THEN [store |-> assigned, files |-> files, persisted |-> persisted,
              outcome |-> Raised("EncodeError")]
        ELSE IF Len(texts) = 0
        THEN \* line 69: embeddings.shape[1] of an empty array
             [store |-> assigned, files |-> files, persisted |-> persisted,
              outcome |-> Raised("IndexError")]
        ELSE [store |-> [assigned EXCEPT !.index = built],
              files |-> saved,
              persisted |-> IF fault = "none"
                            THEN [valid |-> TRUE, chunks |-> chunks]
                            ELSE PersistedAfter(saved),
              outcome |-> IF fault = "none" THEN Returned(<< >>)
                          ELSE Raised("IOError")]

\* mutant: build_vector_store taking the dimension from the model instead
\* of embeddings.shape[1], so that an empty corpus builds an empty index
BuildVectorStoreEmptyIndex(chunks, fault) ==
    LET texts == ContentsOf(chunks)
        metas == MetadataOf(chunks)
        built == IndexOf(EmbedAll(texts))
        saved == SaveFiles(files, built, texts, metas, fault)
    IN  /\ documents' = texts
        /\ document_metadata' = metas
        /\ IF fault = "encode"
           THEN /\ UNCHANGED <<index, files, persisted>>
                /\ ret' = [op |-> "build", chunks |-> chunks, fault |-> fault] @@ Raised("EncodeError")
           ELSE /\ index' = built
                /\ files' = saved
                /\ persisted' = IF fault = "none"
                                THEN [valid |-> TRUE, chunks |-> chunks]
                                ELSE PersistedAfter(saved)
                /\ ret' = [op |-> "build", chunks |-> chunks, fault |-> fault] @@
                          (IF fault = "none" THEN Returned(<< >>) ELSE Raised("IOError"))

\* build_vector_store, lines 56-79
BuildVectorStore(chunks, fault) ==
    \E built \in {BuildOutcome(StoreOf, chunks, fault)} :
        /\ index' = built.store.index
        /\ documents' = built.store.documents
        /\ document_metadata' = built.store.document_metadata
        /\ files' = built.files
        /\ persisted' = built.persisted
        /\ ret' = [op |-> "build", chunks |-> chunks, fault |-> fault] @@ built.outcome

\* save_vector_store called on its own, lines 81-93
SaveVectorStore(fault) ==
    LET saved == SaveFiles(files, index, documents, document_metadata, fault)
    IN  /\ UNCHANGED <<index, documents, document_metadata>>
        /\ IF ~index.present
           THEN \* faiss.write_index(None, ...) raises before anything is written
                /\ UNCHANGED <<files, persisted>>
                /\ ret' = [op |-> "save"] @@ Raised("TypeError")
           ELSE /\ files' = saved
                /\ persisted' = PersistedAfter(saved)
                /\ ret' = [op |-> "save"] @@
                          (IF fault = "none" THEN Returned(<< >>) ELSE Raised("IOError"))

\* whether reading a file raises: open() of a missing file, or a read
\* that fails (the file is unreadable)
ReadFails(file, unreadable) == ~file.exists \/ unreadable

\* load_vector_store, lines 95-117, on a system whose fields are `store`:
\* the fields it leaves and the value it returns
LoadOutcome(store, fault) ==
    IF ~files.index_faiss.exists \/ fault = "read_index"
    THEN \* line 103, or faiss.read_index raising
         [store |-> store, value |-> FALSE]
    ELSE LET indexed == [store EXCEPT !.index = IndexOf(files.index_faiss.data)]
         IN  IF ReadFails(files.documents_pkl, fault = "read_documents")
             THEN [store |-> indexed, value |-> FALSE]
             ELSE LET read == [indexed EXCEPT !.documents = files.documents_pkl.data]
                  IN  IF ReadFails(files.metadata_pkl, fault = "read_metadata")
                      THEN [store |-> read, value |-> FALSE]
                      ELSE [store |-> [read EXCEPT !.document_metadata =
                                                     files.metadata_pkl.data],
                            value |-> TRUE]

\* mutant: load_vector_store without its try/except, so that a file that
\* cannot be read raises to the caller
LoadVectorStoreUncaught(fault) ==
    LET call == [op |-> "load", fault |-> fault,
                 fresh |-> (~index.present /\ documents = << >>
                            /\ document_metadata = << >>)]
        all == /\ files.documents_pkl.exists /\ files.metadata_pkl.exists
               /\ fault = "none"
    IN  /\ UNCHANGED <<files, persisted>>
        /\ IF ~files.index_faiss.exists
           THEN /\ UNCHANGED <<index, documents, document_metadata>>
                /\ ret' = call @@ Returned(FALSE)
           ELSE IF ~all
           THEN /\ UNCHANGED <<index, documents, document_metadata>>
                /\ ret' = call @@ [raised |-> "IOError", value |-> FALSE]
           ELSE /\ index' = IndexOf(files.index_faiss.data)
                /\ documents' = files.documents_pkl.data
                /\ document_metadata' = files.metadata_pkl.data
                /\ ret' = call @@ Returned(TRUE)

\* load_vector_store, lines 95-117: whatever raises inside the try is
\* caught at line 115
LoadVectorStore(fault) ==
    LET call == [op |-> "load", fault |-> fault,
                 fresh |-> (~index.present /\ documents = << >>
                            /\ document_metadata = << >>)]
    IN  \E loaded \in {LoadOutcome(StoreOf, fault)} :
            /\ UNCHANGED <<files, persisted>>
            /\ index' = loaded.store.index
            /\ documents' = loaded.store.documents
            /\ document_metadata' = loaded.store.document_metadata
            /\ ret' = call @@ Returned(loaded.value)

\* a new LegalRAGSystem on the same vector_store_path, lines 42-48
NewSystem ==
    /\ index' = NoIndex
    /\ documents' = << >>
    /\ document_metadata' = << >>
    /\ UNCHANGED <<files, persisted>>
    /\ ret' = [op |-> "init"] @@ Returned(<< >>)

(***************************************************************************)
(* search and get_chat_response as calls.                                  *)
(***************************************************************************)
\* mutant: a search that first reads the files into the system
SearchLoadingFirst(query, top_k, filters) ==
    \E loaded \in {LoadOutcome(StoreOf, "none")} :
        /\ index' = loaded.store.index
        /\ documents' = loaded.store.documents
        /\ document_metadata' = loaded.store.document_metadata
        /\ UNCHANGED <<files, persisted>>
        /\ \E cands \in (Neighbours(query, top_k))' :
           \E searched \in {(SearchOutcome(cands, top_k, filters))'} :
            ret' = [op |-> "search", query |-> query, top_k |-> top_k,
                    filters |-> filters, cands |-> cands] @@ searched

\* search, lines 119-155, as a call: it assigns no field of the system
\* and writes no file
Search(query, top_k, filters) ==
    /\ UNCHANGED <<index, documents, document_metadata, files, persisted>>
    /\ \E cands \in Neighbours(query, top_k) :
        ret' = [op |-> "search", query |-> query, top_k |-> top_k,
                filters |-> filters, cands |-> cands]
               @@ SearchOutcome(cands, top_k, filters)

(***************************************************************************)
(* _build_context and _get_prompt_template: the texts, as strings.         *)
(***************************************************************************)
\* the longest list of results handed to _build_context
MaxResults == 2

\* the string made of n copies of s
RECURSIVE Repeat(_, _)
Repeat(s, n) == IF n = 0 THEN "" ELSE s \o Repeat(s, n - 1)

\* str of a value kept as a sequence of characters
RECURSIVE Text(_)
Text(chars) == IF chars = << >> THEN "" ELSE Head(chars) \o Text(Tail(chars))

S_NA       == <<"N", "/", "A">>
S_Overview == <<"O", "v", "e", "r", "v", "i", "e", "w">>
S_Theft    == <<"T", "h", "e", "f", "t">>

\* a section chunk (data_processor.py lines 111-141) whose content is
\* longer than what _build_context keeps
ChunkTheft ==
    [content |-> "Act: Penal Code Section: Theft Chapter: XVII Content: " \o
                 Repeat("whoever commits theft shall be punished; ", 12),
     chunk_type |-> "section", chunk_id |-> "A2_section_2",
     metadata |-> ActInfo("A2", S_Penal, S_1860, FALSE, "english") @@
                  [section_number |-> 2, section_title |-> S_Theft,
                   chapter |-> "XVII"]]

\* a chunk whose content is exactly as long as what _build_context keeps
ChunkAtLimit ==
    [content |-> Repeat("0123456789", 50),
     chunk_type |-> "overview", chunk_id |-> "A6_overview",
     metadata |-> ActInfo("A6", S_act, S_1872, TRUE, "english")]

\* the SearchResult that search makes of a chunk stored at position idx
ResultOf(chunk, idx, score) ==
    [content |-> chunk.content,
     metadata |-> chunk.metadata,
     score |-> score,
     chunk_id |-> DictGet(chunk.metadata, "chunk_id", "chunk_" \o ToString(idx)),
     chunk_type |-> DictGet(chunk.metadata, "chunk_type", "unknown")]

\* line 223: doc.content[:500]
ContextLimit == 500

\* s[:n]
PySlice(s, n) == IF Len(s) <= n THEN s ELSE SubSeq(s, 1, n)

\* lines 217-223 after strip(), up to the content
ContextPartHead(i, doc) ==
    "Document " \o ToString(i) \o ":\n" \o
    "Title: " \o Text(DictGet(doc.metadata, "act_title", S_NA)) \o "\n" \o
    "Year: " \o Text(DictGet(doc.metadata, "act_year", S_NA)) \o "\n" \o
    "Section: " \o Text(DictGet(doc.metadata, "section_title", S_Overview)) \o "\n" \o
    "Status: " \o (IF DictGet(doc.metadata, "is_repealed", FALSE)
                   THEN "Repealed" ELSE "Active") \o "\n" \o
    "Content: "

\* lines 217-225: one block, stripped
ContextPart(i, doc) ==
    ContextPartHead(i, doc) \o PySlice(doc.content, ContextLimit) \o "..."

\* "\n\n".join(parts), line 227
RECURSIVE JoinBlankLine(_)
JoinBlankLine(parts) ==
    IF Len(parts) = 0 THEN ""
    ELSE IF Len(parts) = 1 THEN parts[1]
    ELSE parts[1] \o "\n\n" \o JoinBlankLine(Tail(parts))

\* _build_context, lines 208-227
BuildContext(docs) ==
    IF docs = << >> THEN "No relevant legal documents found."
    ELSE JoinBlankLine([i \in 1..Len(docs) |-> ContextPart(i, docs[i])])

\* lines 233-240
BaseContext(context, query) ==
    "\n" \o
    "You are a Bangladesh Legal Assistant AI, specialized in helping with legal questions based on the Bangladesh legal database.\n" \o
    "\n" \o
    "Available Legal Context:\n" \o
    context \o "\n" \o
    "\n" \o
    "Current Query: " \o query \o "\n" \o
    "        "

\* the text after {base_context}, lines 243-257
LawyerMode ==
    "\n" \o
    "\n" \o
    "LAWYER MODE: You are acting as a legal professional providing expert legal advice.\n" \o
    "\n" \o
    "Instructions:\n" \o
    "1. Provide comprehensive legal analysis\n" \o
    "2. Cite specific acts, sections, and years\n" \o
    "3. Explain legal implications and consequences\n" \o
    "4. Suggest legal strategies or approaches\n" \o
    "5. Mention relevant precedents if applicable\n" \o
    "6. Use formal legal language\n" \o
    "7. Always caveat that this is general guidance and recommend consulting a practicing lawyer for specific cases\n" \o
    "\n" \o
    "Response format: Provide detailed legal analysis with citations.\n"

\* the text after {base_context}, lines 260-273
ArgumentMode ==
    "\n" \o
    "\n" \o
    "ARGUMENT MODE: Help build legal arguments and counterarguments.\n" \o
    "\n" \o
    "Instructions:\n" \o
    "1. Identify the main legal issues\n" \o
    "2. Present arguments for different sides\n" \o
    "3. Cite supporting legal provisions\n" \o
    "4. Identify potential weaknesses in arguments\n" \o
    "5. Suggest evidence or precedents that might be relevant\n" \o
    "6. Present both plaintiff and defendant perspectives where applicable\n" \o
    "\n" \o
    "Response format: Structure as \"Arguments For:\" and \"Arguments Against:\" with legal citations.\n"

\* the text after {base_context}, lines 276-289
ResearchMode ==
    "\n" \o
    "\n" \o
    "RESEARCH MODE: Provide comprehensive legal research assistance.\n" \o
    "\n" \o
    "Instructions:\n" \o
    "1. Identify all relevant laws and regulations\n" \o
    "2. Provide historical context and amendments\n" \o
    "3. Compare with similar provisions in other acts\n" \o
    "4. Explain the legislative intent and purpose\n" \o
    "5. List related acts and cross-references\n" \o
    "6. Provide implementation guidelines if available\n" \o
    "\n" \o
    "Response format: Comprehensive research summary with extensive citations.\n"

\* the text after {base_context}, lines 292-305
SimpleMode ==
    "\n" \o
    "\n" \o
    "SIMPLE MODE: Explain legal concepts in easy-to-understand language.\n" \o
    "\n" \o
    "Instructions:\n" \o
    "1. Use simple, non-technical language\n" \o
    "2. Explain legal jargon and concepts\n" \o
    "3. Provide practical examples\n" \o
    "4. Focus on what it means for ordinary citizens\n" \o
    "5. Break down complex procedures into steps\n" \o
    "6. Avoid excessive legal citations\n" \o
    "\n" \o
    "Response format: Clear, simple explanation that a non-lawyer can understand.\n"

\* the text after {base_context}, lines 308-321
GeneralMode ==
    "\n" \o
    "\n" \o
    "GENERAL MODE: Provide balanced legal information and guidance.\n" \o
    "\n" \o
    "Instructions:\n" \o
    "1. Answer the question directly and clearly\n" \o
    "2. Provide relevant legal context\n" \o
    "3. Cite applicable laws with act names and years\n" \o
    "4. Explain practical implications\n" \o
    "5. Maintain professional but accessible tone\n" \o
    "6. Suggest next steps if appropriate\n" \o
    "\n" \o
    "Response format: Clear, informative response with appropriate legal citations.\n"

\* the modes the sidebar offers, ui_components.py line 21
KnownModes == {"general", "lawyer", "argument", "research", "simple"}

\* mutant: a mode that is not known gets no instructions
GetPromptTemplateKnownOnly(mode, query, context, history) ==
    LET base_context == BaseContext(context, query)
    IN  IF mode = "lawyer" THEN base_context \o LawyerMode
        ELSE IF mode = "argument" THEN base_context \o ArgumentMode
        ELSE IF mode = "research" THEN base_context \o ResearchMode
        ELSE IF mode = "simple" THEN base_context \o SimpleMode
        ELSE IF mode = "general" THEN base_context \o GeneralMode
        ELSE base_context

\* _get_prompt_template, lines 229-321; history is a parameter that no
\* line of the body reads
GetPromptTemplate(mode, query, context, history) ==
    LET base_context == BaseContext(context, query)
    IN  IF mode = "lawyer" THEN base_context \o LawyerMode
        ELSE IF mode = "argument" THEN base_context \o ArgumentMode
        ELSE IF mode = "research" THEN base_context \o ResearchMode
        ELSE IF mode = "simple" THEN base_context \o SimpleMode
        ELSE base_context \o GeneralMode

\* one entry of the conversation, app.py line 244
Turn(role, content) == [role |-> role, content |-> content]

\* conversation_history=None, or an empty list
NoHistory == << >>

\* what self.model.generate_content does with the prompt
Generations == {"text", "empty", "raise"}

\* str(e) of the exception the generation model raises
ErrorDetail == "429 quota exceeded"

\* generate_response, lines 182-206: the context and the prompt it
\* renders (lines 190-193), the conversation history it was given, and the
\* text it returns as its f-string parts (lines 195-206)
GenerateResponse(query, context_documents, mode, conversation_history, generation) ==
    LET context == BuildContext(context_documents)
        prompt  == GetPromptTemplate(mode, query, context, conversation_history)
    IN  [prompt  |-> prompt,
         history |-> conversation_history,
         text    |-> IF generation = "text" THEN <<"model answer">>
                     ELSE IF generation = "empty"
                     THEN <<"I apologize, but I couldn't generate a response. Please try rephrasing your question.">>
                     ELSE <<"I encountered an error while processing your request: ", ErrorDetail>>]

\* get_chat_response, lines 323-337: the pair it returns, and what it
\* handed to generate_response
ChatOutcome(searched, query, mode, conversation_history, generation) ==
    IF searched.raised # "none" THEN searched
    ELSE LET generated == GenerateResponse(query, searched.value, mode,
                                           conversation_history, generation)
         IN  Returned(<<generated.text, searched.value>>) @@
             [handed |-> generated.history, prompt |-> generated.prompt]

GetChatResponse(query, mode, filters, conversation_history, top_k, generation) ==
    /\ UNCHANGED <<index, documents, document_metadata, files, persisted>>
    /\ \E cands \in Neighbours(query, top_k) :
        ret' = [op |-> "chat", query |-> query, mode |-> mode, top_k |-> top_k,
                filters |-> filters, conversation_history |-> conversation_history,
                cands |-> cands, generation |-> generation]
               @@ ChatOutcome(SearchOutcome(cands, top_k, filters), query, mode,
                              conversation_history, generation)

(***************************************************************************)
(* The system: any sequence of calls on one store path.                    *)
(***************************************************************************)
Init ==
    /\ index = NoIndex
    /\ documents = << >>
    /\ document_metadata = << >>
    /\ files = [index_faiss |-> NoFile, documents_pkl |-> NoFile,
                metadata_pkl |-> NoFile]
    /\ persisted = NotPersisted
    /\ ret = [op |-> "init"] @@ Returned(<< >>)
    /\ session = NoSession
    /\ widgets = NoPage

\* the calls below are made on the LegalRAGSystem itself, outside any page
NoPageRun == UNCHANGED <<session, widgets>>

Build    == \E chunks \in StoreCorpora, fault \in BuildFaults :
                BuildVectorStore(chunks, fault) /\ NoPageRun
Save     == \E fault \in SaveFaults : SaveVectorStore(fault) /\ NoPageRun
Load     == \E fault \in LoadFaults : LoadVectorStore(fault) /\ NoPageRun
Renew    == NewSystem /\ NoPageRun
DoSearch == \E q \in StoreQueries, k \in TopKs, f \in StoreFilters :
                Search(q, k, f) /\ NoPageRun
DoChat   == \E q \in StoreQueries, k \in TopKs, f \in StoreFilters, g \in Generations :
                GetChatResponse(q, "general", f, NoHistory, k, g) /\ NoPageRun

Next == Build \/ Save \/ Load \/ Renew \/ DoSearch \/ DoChat

Spec == Init /\ [][Next]_vars

(***************************************************************************)
(* Searches of a built store: every corpus, query, top_k and filter.       *)
(***************************************************************************)
InitSearch ==
    \E chunks \in Corpora :
        /\ Len(chunks) > 0
        /\ index = IndexOf(EmbedAll(ContentsOf(chunks)))
        /\ documents = ContentsOf(chunks)
        /\ document_metadata = MetadataOf(chunks)
        /\ files = [index_faiss |-> FileOf(EmbedAll(ContentsOf(chunks))),
                    documents_pkl |-> FileOf(ContentsOf(chunks)),
                    metadata_pkl |-> FileOf(MetadataOf(chunks))]
        /\ persisted = [valid |-> TRUE, chunks |-> chunks]
        /\ ret = [op |-> "build", chunks |-> chunks, fault |-> "none"] @@ Returned(<< >>)
        /\ session = NoSession
        /\ widgets = NoPage

SearchAny == \E q \in Queries, k \in TopKs, f \in Filters :
                Search(q, k, f) /\ NoPageRun

NextSearch == SearchAny

SpecSearch == InitSearch /\ [][NextSearch]_vars

(***************************************************************************)
(* _apply_filters on its own: every metadata record against every filter.  *)
(***************************************************************************)
\* metadata dicts: those of the chunks, one with an empty act_year and one
\* that has no act_year key
Metadatas ==
    { c.metadata : c \in Chunks } \cup
    { ActInfo("A4", S_Contract, S_empty, FALSE, "english"),
      [act_id |-> "A5", act_title |-> S_Penal, is_repealed |-> FALSE,
       language_detected |-> "english"] }

ApplyFiltersCall(metadata, filters) ==
    /\ UNCHANGED <<index, documents, document_metadata, files, persisted>>
    /\ ret' = [op |-> "apply_filters", metadata |-> metadata, filters |-> filters]
              @@ Returned(ApplyFilters(metadata, filters))

\* entries _apply_filters has no branch for: a key it does not know, or a
\* known key with a value of another Python type (a year_range given as a
\* two-element list, ...)
OddEntries ==
    { "section" :> PyStr("Theft"),
      "year_range" :> PyList(<<1800, 1870>>),
      "is_repealed" :> PyStr("true"),
      "language" :> PyList(<<"english">>),
      "keywords" :> PyStr(S_tax) }

\* an odd entry, alone or beside well-typed entries
OddFilters ==
    { odd @@ f : odd \in OddEntries,
                 f \in {NoFilters, "is_repealed" :> PyBool(FALSE),
                        "keywords" :> PyList(<<S_act>>)} }

\* ui_components.py lines 76-78 on an input such as ",": an empty list
EmptyKeywords == "keywords" :> PyList(<< >>)

FilterCalls == Filters \cup OddFilters \cup {EmptyKeywords}

NextFilters == \E m \in Metadatas, f \in FilterCalls :
                    ApplyFiltersCall(m, f) /\ NoPageRun

SpecFilters == Init /\ [][NextFilters]_vars

(***************************************************************************)
(* _build_context and _get_prompt_template called on their own.            *)
(***************************************************************************)
PromptChunks == {ChunkContract, ChunkOld, ChunkTheft, ChunkAtLimit}

\* the lists of results _build_context is called with
ResultLists ==
    UNION { [1..n -> {ResultOf(c, 0, UnitLength * UnitLength) : c \in PromptChunks}] :
            n \in 0..MaxResults }

PromptHistories ==
    {NoHistory,
     <<Turn("user", "what is theft")>>,
     <<Turn("user", "what is theft"), Turn("assistant", "model answer")>>}

PromptModes == KnownModes \cup {"unknown_value", "General", ""}

PromptContexts ==
    {BuildContext(<< >>), BuildContext(<<ResultOf(ChunkContract, 0, UnitLength * UnitLength)>>)}

BuildContextCall(docs) ==
    /\ UNCHANGED <<index, documents, document_metadata, files, persisted>>
    /\ ret' = [op |-> "build_context", documents |-> docs]
              @@ Returned(BuildContext(docs))

GetPromptTemplateCall(mode, query, context, history) ==
    /\ UNCHANGED <<index, documents, document_metadata, files, persisted>>
    /\ ret' = [op |-> "prompt", mode |-> mode, query |-> query,
               context |-> context, history |-> history]
              @@ Returned(GetPromptTemplate(mode, query, context, history))

BuildContextAny == \E docs \in ResultLists : BuildContextCall(docs) /\ NoPageRun

GetPromptTemplateAny ==
    \E mode \in PromptModes, query \in Queries, context \in PromptContexts,
       history \in PromptHistories :
        GetPromptTemplateCall(mode, query, context, history) /\ NoPageRun

NextPrompt == BuildContextAny \/ GetPromptTemplateAny

SpecPrompt == Init /\ [][NextPrompt]_vars

(***************************************************************************)
(* get_chat_response on a built store, with conversations of any length.   *)
(***************************************************************************)
\* the longest conversation handed to get_chat_response
MaxHistory == 11

\* a conversation of n entries, user and assistant taking turns
HistoryOf(n) ==
    [i \in 1..n |-> Turn(IF i % 2 = 1 THEN "user" ELSE "assistant",
                         "message " \o ToString(i))]

ChatHistories == { HistoryOf(n) : n \in 0..MaxHistory }

ChatModes == {"general", "lawyer"}

ChatAny ==
    \E q \in StoreQueries, mode \in ChatModes, f \in StoreFilters,
       history \in ChatHistories, k \in TopKs, g \in Generations :
        GetChatResponse(q, mode, f, history, k, g) /\ NoPageRun

NextChat == ChatAny

\* a store built over two acts, one of them repealed
InitChat == InitSearch /\ documents = ContentsOf(<<ChunkContract, ChunkOld>>)

SpecChat == InitChat /\ [][NextChat]_vars

(***************************************************************************)
(* The Streamlit page (app.py): one action per script run of main().       *)
(***************************************************************************)
\* the longest st.session_state.messages
MaxMessages == 4

SetKey(d, key, value) ==
    [k \in (DOMAIN d) \cup {key} |-> IF k = key THEN value ELSE d[k]]

\* app.py lines 187-192
SessionDefaults(s) ==
    [k \in (DOMAIN s) \cup {"messages", "building_vector_store", "vector_store_built"} |->
        IF k \in DOMAIN s THEN s[k]
        ELSE IF k = "messages" THEN << >> ELSE FALSE]

\* the fields of a LegalRAGSystem just constructed, rag_system.py lines 42-45
NewStore == [index |-> NoIndex, documents |-> << >>, document_metadata |-> << >>]

\* what processor.process_all_acts() may return, the CSV file in data/
\* being what it is when the build runs
ProcessAllActs == {<<ChunkContract, ChunkOld>>, <<ChunkContract>>}

\* what st.chat_input returns in a run that no prompt was submitted to
NoPrompt == ""

AppPrompts == StoreQueries

\* the questions behind the "Try" buttons, ui_components.py lines 348-384
ExampleQuestions == {"What rights do tenants have?"}

\* the dicts render_sidebar_filters returns: the filter keys chosen, the
\* mode and top_k
Sidebars == { f @@ [mode |-> "general", top_k |-> MaxTopK] : f \in StoreFilters }

\* app.py lines 255-263: the four filter keys copied when present
RagFilters(filters) ==
    [k \in (DOMAIN filters) \cap {"year_range", "is_repealed", "language", "keywords"} |->
        filters[k]]

\* app.py line 270: the caller keeps the last 10 entries
HistoryLimit == 10

\* s[-n:]
PyLast(s, n) == IF Len(s) <= n THEN s ELSE SubSeq(s, Len(s) - n + 1, Len(s))

\* mutant: the new message replaces the list
AppendMessageReplacing(messages, message) == <<message>>

\* st.session_state.messages.append(message), lines 244, 296, 309
AppendMessage(messages, message) == Append(messages, message)

\* lines 296-300 and 303-312: the assistant's message for what
\* get_chat_response did
AssistantMessage(chat) ==
    IF chat.raised = "none"
    THEN [role |-> "assistant", content |-> chat.value[1], sources |-> chat.value[2]]
    ELSE [role |-> "assistant",
          content |-> <<"I apologize, but I encountered an error: ", chat.raised>>]

\* mutant: no message for a get_chat_response that raised
AfterResponseNoTurnOnError(messages, chat) ==
    IF chat.raised = "none"
    THEN AppendMessage(messages, AssistantMessage(chat))
    ELSE messages

\* lines 294-312: the messages after get_chat_response returned or raised
AfterResponse(messages, chat) == AppendMessage(messages, AssistantMessage(chat))

\* what a script run leaves in the browser: widgets to act on, or a
\* rerun already requested by st.rerun()
Page(rendered) == [rerun |-> FALSE, rendered |-> rendered]
Rerun == [rerun |-> TRUE, rendered |-> {}]

\* build_vector_store_ui, lines 156-181, for a system whose fields are
\* `store`
BuildVectorStoreUI(s, store, event, chunks, build_fault) ==
    LET same == [store |-> store, files |-> files, persisted |-> persisted]
    IN  IF ~s["building_vector_store"]
        THEN IF event = "start_build"
             THEN same @@ [session |-> SetKey(s, "building_vector_store", TRUE),
                           widgets |-> Rerun, build |-> "not called"]
             ELSE same @@ [session |-> s, widgets |-> Page({"start_build"}),
                           build |-> "not called"]
        ELSE LET built == BuildOutcome(store, chunks, build_fault)
                 done  == [store |-> built.store, files |-> built.files,
                           persisted |-> built.persisted,
                           build |-> built.outcome.raised]
             IN  IF built.outcome.raised = "none"
                 THEN done @@
                      [session |-> SetKey(SetKey(s, "building_vector_store", FALSE),
                                          "vector_store_built", TRUE),
                       widgets |-> Rerun]
                 ELSE done @@
                      [session |-> SetKey(s, "building_vector_store", FALSE),
                       widgets |-> Page({})]

\* lines 316-322 and the rest of main() after the chat: the Clear Chat
\* History button, then the "Try" buttons of the help tab
AfterChat(s, event, question) ==
    IF s["messages"] # << >> /\ event = "clear"
    THEN [session |-> SetKey(s, "messages", << >>), widgets |-> Rerun]
    ELSE [session |-> IF event = "try" THEN SetKey(s, "example_query", question) ELSE s,
          widgets |-> Page({"submit", "try"} \cup
                           (IF s["messages"] # << >> THEN {"clear"} ELSE {}))]

\* lines 217-222: the prompt of this run
PromptOf(s, event, typed) ==
    IF "example_query" \in DOMAIN s THEN s["example_query"]
    ELSE IF event = "submit" THEN typed ELSE NoPrompt

\* the events a script run can start from: a rerun requested by the run
\* before, the page being opened or a sidebar widget changed, or a widget
\* of the page the run before rendered
Events == {"rerun", "open", "start_build", "submit", "try", "clear"}

CanHappen(event) ==
    LET messages == DictGet(session, "messages", << >>)
        pending  == IF "example_query" \in DOMAIN session THEN 2 ELSE 0
    IN  IF widgets.rerun THEN event = "rerun"
        ELSE /\ event = "open" \/ event \in widgets.rendered
             /\ event = "submit" => Len(messages) + 2 <= MaxMessages
             /\ event = "try" => Len(messages) + pending + 2 <= MaxMessages

\* mutant: the chat page whatever load_vector_store returned
BuildNeededNever(vector_store_loaded) == FALSE

\* line 209: the build flow, and the end of the run, when the store was not
\* loaded
BuildNeeded(vector_store_loaded) == ~vector_store_loaded

\* main(), lines 183-389, with the API key configured and the CSV file in
\* place: one script run
MainRun(event, typed, question) ==
    LET defaults == SessionDefaults(session)
        fresh    == "rag_system" \notin DOMAIN defaults
        s        == SetKey(defaults, "rag_system", TRUE)
        call     == [op |-> "main", event |-> event]
    IN  /\ CanHappen(event)
        /\ \E load_fault \in LoadFaults :
           \E loaded \in {LoadOutcome(IF fresh THEN NewStore ELSE StoreOf, load_fault)} :
            IF BuildNeeded(loaded.value)
            THEN \E chunks \in ProcessAllActs, build_fault \in BuildFaults :
                 \E ui \in {BuildVectorStoreUI(s, loaded.store, event, chunks,
                                                build_fault)} :
                    /\ index' = ui.store.index
                    /\ documents' = ui.store.documents
                    /\ document_metadata' = ui.store.document_metadata
                    /\ files' = ui.files
                    /\ persisted' = ui.persisted
                    /\ session' = ui.session
                    /\ widgets' = ui.widgets
                    /\ ret' = call @@ [vector_store_loaded |-> loaded.value,
                                       build |-> ui.build, prompt |-> NoPrompt,
                                       chat |-> "not called"]
            ELSE /\ index' = loaded.store.index
                 /\ documents' = loaded.store.documents
                 /\ document_metadata' = loaded.store.document_metadata
                 /\ UNCHANGED <<files, persisted>>
                 /\ \E filters \in Sidebars,
                       taken \in {WithoutKey(s, "example_query")},
                       prompt \in {PromptOf(s, event, typed)} :
                        IF prompt = NoPrompt
                        THEN \E after \in {AfterChat(taken, event, question)} :
                                /\ session' = after.session
                                /\ widgets' = after.widgets
                                /\ ret' = call @@ [vector_store_loaded |-> loaded.value,
                                                   build |-> "not called",
                                                   prompt |-> NoPrompt,
                                                   chat |-> "not called"]
                        ELSE \E asked \in {AppendMessage(taken["messages"],
                                                         Turn("user", prompt))},
                                top_k \in {filters["top_k"]},
                                mode \in {filters["mode"]},
                                rag_filters \in {RagFilters(filters)} :
                             \* get_chat_response on the store as loaded
                             \E cands \in (Neighbours(prompt, top_k))',
                                generation \in Generations :
                             \E searched \in {(SearchOutcome(cands, top_k, rag_filters))'} :
                             \E chat \in {ChatOutcome(searched, prompt, mode,
                                                      PyLast(asked, HistoryLimit),
                                                      generation)} :
                             \E after \in {AfterChat(
                                             SetKey(taken, "messages",
                                                    AfterResponse(asked, chat)),
                                             event, question)} :
                                /\ session' = after.session
                                /\ widgets' = after.widgets
                                /\ ret' = [op |-> "main", event |-> event,
                                           vector_store_loaded |-> loaded.value,
                                           build |-> "not called",
                                           prompt |-> prompt,
                                           chat |-> IF chat.raised = "none"
                                                    THEN "returned"
                                                    ELSE chat.raised]

MainRunAny ==
    \E event \in Events, typed \in AppPrompts, question \in ExampleQuestions :
        MainRun(event, typed, question)

\* the page opened in a new browser session: a new, empty session_state
NewSession ==
    /\ session # NoSession
    /\ session' = NoSession
    /\ widgets' = NoPage
    /\ UNCHANGED <<index, documents, document_metadata, files, persisted>>
    /\ ret' = [op |-> "new_session"] @@ Returned(<< >>)

NextApp == MainRunAny \/ NewSession

SpecApp == Init /\ [][NextApp]_vars

(***************************************************************************)
(* Properties.                                                             *)
(***************************************************************************)
SearchReturned == ret.op = "search" /\ ret.raised = "none"
ChatReturned   == ret.op = "chat" /\ ret.raised = "none"

\* C1: get_chat_response always returns a (response text, sources) pair
\* and never raises, in every reachable state of the system and for every
\* argument, the generation model raising included.
C1_ChatNeverRaises ==
    ret.op = "chat" => ret.raised = "none" /\ Len(ret.value) = 2

\* a text is non-empty when one of its parts is
NonEmptyText(parts) == \E n \in 1..Len(parts) : parts[n] # ""

\* C2: when the generation model raises during get_chat_response, the pair
\* returned is (a non-empty apology text embedding the error detail, []).
C2_FailureReturnsNoSources ==
    (ChatReturned /\ ret.generation = "raise") =>
        /\ ret.value[2] = << >>
        /\ NonEmptyText(ret.value[1])
        /\ \E n \in 1..Len(ret.value[1]) : ret.value[1][n] = ErrorDetail

\* the year_range predicate as the specification's table states it:
\* fail-closed on an act_year that does not parse as an integer
TableYearRange(metadata, value) ==
    LET year_str == DictGet(metadata, "act_year", S_empty)
    IN  /\ StrIsDigit(year_str)
        /\ value.val[1] <= StrToInt(year_str)
        /\ StrToInt(year_str) <= value.val[2]

TableEntry(metadata, key, value) ==
    CASE key = "year_range"  -> TableYearRange(metadata, value)
      [] key = "is_repealed" -> metadata.is_repealed = value.val
      [] key = "language"    -> metadata.language_detected = value.val
      [] key = "keywords"    ->
            \E n \in 1..Len(value.val) :
                StrContains(StrLower(metadata.act_title), StrLower(value.val[n]))

\* C3: every SearchResult that search returns satisfies every predicate
\* supplied in the filter: act_year parses to an integer inside year_range,
\* is_repealed and language_detected equal the requested values, and some
\* keyword occurs in act_title.
C3_FilterConjunction ==
    SearchReturned =>
        \A n \in 1..Len(ret.value) : \A key \in DOMAIN ret.filters :
            TableEntry(ret.value[n].metadata, key, ret.filters[key])

\* C4: with only year_range=(lo,hi) in the filter, _apply_filters is False
\* for every record whose act_year is missing, empty or not an integer, and
\* is lo <= int(act_year) <= hi otherwise.
C4_YearRangeFailClosed ==
    (ret.op = "apply_filters" /\ DOMAIN ret.filters = {"year_range"}) =>
        ret.value = TableYearRange(ret.metadata, ret.filters["year_range"])

\* C5: search returns at most top_k results.
C5_BoundedResults ==
    SearchReturned => Len(ret.value) <= ret.top_k

\* a search stopped by top_k although a further stored chunk passes
C5_Witness ==
    /\ SearchReturned
    /\ ret.filters = NoFilters
    /\ Len(ret.value) = ret.top_k
    /\ Len(documents) > ret.top_k

\* C6: the list search returns is non-increasing in score.
C6_Ordering ==
    SearchReturned =>
        \A n \in 1..(Len(ret.value) - 1) :
            ret.value[n].score >= ret.value[n + 1].score

\* a filtered search returning two results of different scores, a
\* better-scoring candidate having been filtered out before them
C6_Witness ==
    /\ SearchReturned
    /\ ret.filters # NoFilters
    /\ Len(ret.value) = 2
    /\ ret.value[1].score > ret.value[2].score
    /\ ret.cands[1].score > ret.value[1].score

\* what search returns on the same neighbours under another filter
ResultsUnder(filters) == SearchOutcome(ret.cands, ret.top_k, filters).value

InResults(result, results) == \E n \in 1..Len(results) : results[n] = result

\* C7 as claimed: every result that search returns under a filter F is also
\* returned by search under F with any one key removed.
C7_RemovingKeyKeepsResults ==
    SearchReturned =>
        \A key \in DOMAIN ret.filters : \A n \in 1..Len(ret.value) :
            InResults(ret.value[n], ResultsUnder(WithoutKey(ret.filters, key)))

\* the place of a result among the neighbours FAISS reported
RankOf(result) ==
    CHOOSE i \in 1..Len(ret.cands) :
        /\ ret.cands[i].idx # -1
        /\ MakeResult(ret.cands[i], document_metadata[ret.cands[i].idx + 1]) = result

\* C7 as amended: a result returned under F is returned under F with one
\* key removed, unless that weaker search stopped at top_k results that all
\* rank ahead of it; and the weaker search never returns fewer results.
C7_RemovingKeyWeakens ==
    SearchReturned =>
        \A key \in DOMAIN ret.filters :
            LET weaker == ResultsUnder(WithoutKey(ret.filters, key))
            IN  /\ Len(weaker) >= Len(ret.value)
                /\ \A n \in 1..Len(ret.value) :
                    \/ InResults(ret.value[n], weaker)
                    \/ /\ Len(weaker) = ret.top_k
                       /\ \A m \in 1..Len(weaker) :
                            RankOf(weaker[m]) < RankOf(ret.value[n])

\* a filtered search whose result the search without one key does not
\* return, having filled its top_k with better-ranked chunks
C7_Witness ==
    /\ SearchReturned
    /\ \E key \in DOMAIN ret.filters : \E n \in 1..Len(ret.value) :
        ~InResults(ret.value[n], ResultsUnder(WithoutKey(ret.filters, key)))

\* C8: whenever the system holds an index, the index, documents and
\* document_metadata have the same length.
C8_ParallelArrays ==
    index.present =>
        /\ Len(index.vectors) = Len(documents)
        /\ Len(documents) = Len(document_metadata)

\* C9: after a build that succeeded (and so persisted), load_vector_store
\* (the three files being readable) returns True and yields the documents
\* and metadata that were built, position by position, with an index of the
\* same size.
C9_RoundTrip ==
    (ret.op = "load" /\ ret.fault = "none" /\ persisted.valid) =>
        /\ ret.value = TRUE
        /\ documents = ContentsOf(persisted.chunks)
        /\ document_metadata = MetadataOf(persisted.chunks)
        /\ Len(index.vectors) = Len(persisted.chunks)

\* a fresh system that has loaded a persisted store of two chunks
C9_Witness ==
    /\ ret.op = "load"
    /\ ret.fault = "none"
    /\ ret.fresh
    /\ persisted.valid
    /\ Len(persisted.chunks) = 2
    /\ Len(documents) = 2

\* C10: a search made while the system holds no index raises the not-ready
\* error, returns no list, and leaves the store and the files as they were.
C10_SearchNotReady ==
    [][(ret'.op = "search" /\ ~index.present) =>
        /\ ret'.raised = "ValueError: Vector store not built or loaded"
        /\ UNCHANGED <<index, documents, document_metadata, files>>]_vars

\* a search refused for want of an index, by a system whose first build
\* failed after it had replaced the documents
C10_Witness ==
    /\ ret.op = "search"
    /\ ~index.present
    /\ Len(documents) > 0
    /\ ret.raised = "ValueError: Vector store not built or loaded"

\* C11: load_vector_store never raises; it returns False when a file of
\* the artifact is missing or cannot be read, and True only when the index,
\* the documents and the metadata were all read (and are then the ones held).
C11_LoadNeverRaises ==
    ret.op = "load" =>
        /\ ret.raised = "none"
        /\ ret.value \in BOOLEAN
        /\ ret.value = (/\ files.index_faiss.exists
                        /\ files.documents_pkl.exists
                        /\ files.metadata_pkl.exists
                        /\ ret.fault = "none")
        /\ ret.value =>
            /\ index = IndexOf(files.index_faiss.data)
            /\ documents = files.documents_pkl.data
            /\ document_metadata = files.metadata_pkl.data

\* a load that found index.faiss but could not read documents.pkl, and
\* returned False
C11_Witness ==
    /\ ret.op = "load"
    /\ files.index_faiss.exists
    /\ ~files.documents_pkl.exists \/ ret.fault = "read_documents"
    /\ ret.raised = "none"
    /\ ret.value = FALSE

\* a step that is a call of build_vector_store
BuildStep == ret'.op = "build" /\ vars' # vars

\* C13: a build_vector_store call that fails leaves the index, documents
\* and document_metadata held before exactly as they were, and a call that
\* succeeds replaces all three together.
C13_RebuildAtomic ==
    [][BuildStep =>
        IF ret'.raised # "none"
        THEN UNCHANGED <<index, documents, document_metadata>>
        ELSE /\ index'.present
             /\ Len(index'.vectors) = Len(documents')
             /\ Len(documents') = Len(document_metadata')]_vars

\* C14: when a chunk's content fails to embed during build_vector_store,
\* the chunk is skipped and the build goes on: the call returns, with an
\* index aligned with documents and document_metadata.
C14_EmbedFailureSkipped ==
    (ret.op = "build" /\ ret.fault = "encode") =>
        /\ ret.raised = "none"
        /\ index.present
        /\ Len(index.vectors) = Len(documents)
        /\ Len(documents) = Len(document_metadata)

\* C15: build_vector_store called with zero chunks fails: it raises, and
\* neither installs nor persists an (empty) index.
C15_EmptyCorpusFails ==
    [][(BuildStep /\ documents' = << >>) =>
        /\ ret'.raised # "none"
        /\ index' = index
        /\ files' = files]_vars

\* a build with zero chunks that raised out of line 69, with no embedding
\* or file fault, on a system that held an index
C15_Witness ==
    /\ ret.op = "build"
    /\ ret.fault = "none"
    /\ documents = << >>
    /\ ret.raised = "IndexError"
    /\ index.present

\* the candidates that name a stored vector, in the order FAISS gave them
NonSentinel(cands) == SelectSeq(cands, LAMBDA c : c.idx # -1)

MinOf(a, b) == IF a <= b THEN a ELSE b

\* C16: a filter with no keys constrains nothing: _apply_filters is True
\* for every metadata record, and search without filters returns exactly
\* the first min(top_k, number of non-sentinel candidates) neighbours.
C16_NoFilterNoConstraint ==
    /\ \A m \in Metadatas : ApplyFilters(m, NoFilters)
    /\ (SearchReturned /\ ret.filters = NoFilters) =>
        LET real == NonSentinel(ret.cands)
            n == MinOf(ret.top_k, Len(real))
        IN  /\ Len(ret.value) = n
            /\ \A i \in 1..n :
                /\ ret.value[i].score = real[i].score
                /\ ret.value[i].content = documents[real[i].idx + 1]
                /\ ret.value[i].metadata = document_metadata[real[i].idx + 1]

\* an unfiltered search for two results over three stored chunks, FAISS
\* having padded its four candidates with a sentinel
C16_Witness ==
    /\ SearchReturned
    /\ ret.filters = NoFilters
    /\ ret.top_k = 2
    /\ Len(ret.value) = 2
    /\ Len(NonSentinel(ret.cands)) = 3
    /\ Len(ret.cands) = 4

\* C12: for a mode outside the five known ones _get_prompt_template
\* returns, without raising, exactly the text it returns for "general"
\* with the same query, context and history.
C12_UnknownModeIsGeneral ==
    (ret.op = "prompt" /\ ret.mode \notin KnownModes) =>
        /\ ret.raised = "none"
        /\ ret.value = GetPromptTemplate("general", ret.query, ret.context, ret.history)

\* a prompt rendered for a mode that differs from "general" by case only
C12_Witness ==
    /\ ret.op = "prompt"
    /\ ret.mode = "General"
    /\ ret.raised = "none"
    /\ ret.history # NoHistory

\* the block the claim describes: the ellipsis only after content that was cut
ContextPartAsClaimed(i, doc) ==
    ContextPartHead(i, doc) \o PySlice(doc.content, ContextLimit) \o
    (IF Len(doc.content) > ContextLimit THEN "..." ELSE "")

\* C19: in the context _build_context returns, each result's content is cut
\* to its first 500 characters, followed by the ellipsis if and only if the
\* content was longer than that; one block per result, in order, joined by
\* a blank line.
C19_EllipsisIffTruncated ==
    (ret.op = "build_context" /\ ret.documents # << >>) =>
        ret.value = JoinBlankLine([i \in 1..Len(ret.documents) |->
                                      ContextPartAsClaimed(i, ret.documents[i])])

\* C20: two calls of _get_prompt_template that differ only in history
\* render different prompts: the prompt for a non-empty history is not the
\* prompt for no history.
C20_PromptDependsOnHistory ==
    (ret.op = "prompt" /\ ret.history # NoHistory) =>
        ret.value # GetPromptTemplate(ret.mode, ret.query, ret.context, NoHistory)

\* C17: the conversation history get_chat_response hands on to generation
\* is the last 10 entries of the history it received, or all of it when it
\* has 10 or fewer.
C17_HistoryTruncated ==
    ChatReturned => ret.handed = PyLast(ret.conversation_history, HistoryLimit)

\* st.session_state.messages, empty while the key is not set
Messages == DictGet(session, "messages", << >>)

IsPrefix(a, b) == Len(a) <= Len(b) /\ SubSeq(b, 1, Len(a)) = a

\* C18 as claimed: within a session, st.session_state.messages is
\* append-only: across every script run, the messages before are a prefix
\* of the messages after.
C18_MessagesAppendOnly ==
    [][ret'.op = "main" => IsPrefix(Messages, Messages')]_vars

\* C18, amended: across every script run the messages before are a prefix
\* of the messages after, except in a run on the chat page started by the
\* Clear Chat History button, which leaves no message.
C18_AppendOnlyUntilCleared ==
    [][ret'.op = "main" =>
        IF ret'.event = "clear" /\ ret'.vector_store_loaded
        THEN Messages' = << >>
        ELSE IsPrefix(Messages, Messages')]_vars

\* the run started by Clear Chat History has emptied the conversation and
\* asked for a rerun
C18_Witness ==
    /\ ret.op = "main"
    /\ ret.event = "clear"
    /\ ret.vector_store_loaded
    /\ Messages = << >>
    /\ widgets.rerun

\* C21: the keywords predicate is an OR over the act title only: with
\* keywords the only key, _apply_filters passes a record exactly when some
\* keyword is a case-insensitive substring of act_title (no record for an
\* empty list); beside other keys, no record passes without such a keyword.
C21_KeywordsAnyInTitle ==
    (/\ ret.op = "apply_filters"
     /\ "keywords" \in DOMAIN ret.filters
     /\ ret.filters["keywords"].type = "list") =>
        LET title == StrLower(DictGet(ret.metadata, "act_title", S_empty))
            some  == \E n \in 1..Len(ret.filters["keywords"].val) :
                        StrContains(title, StrLower(ret.filters["keywords"].val[n]))
        IN  /\ ret.value => some
            /\ DOMAIN ret.filters = {"keywords"} => (ret.value = some)

\* the Penal Code passed for [CODE, tax]: one keyword of two, in another case
C21_Witness ==
    /\ ret.op = "apply_filters"
    /\ ret.filters = ("keywords" :> PyList(<<S_CODE, S_tax>>))
    /\ ret.metadata.act_title = S_Penal
    /\ ret.value = TRUE

\* the Python type each branch of _apply_filters asks for
ExpectedType == [year_range |-> "tuple", is_repealed |-> "bool",
                 language |-> "str", keywords |-> "list"]

NotRecognised(key, value) ==
    key \notin DOMAIN ExpectedType \/ value.type # ExpectedType[key]

\* C30: an entry whose key _apply_filters does not know, or whose value is
\* not of the type its branch asks for, constrains nothing: the result is
\* the one for the filter without that entry.
C30_OddEntriesIgnored ==
    ret.op = "apply_filters" =>
        \A key \in DOMAIN ret.filters :
            NotRecognised(key, ret.filters[key]) =>
                ret.value = ApplyFilters(ret.metadata, WithoutKey(ret.filters, key))

\* the Contract Act of 1872 passed although year_range, given as a list,
\* ends at 1870
C30_Witness ==
    /\ ret.op = "apply_filters"
    /\ ret.filters = ("year_range" :> PyList(<<1800, 1870>>))
    /\ DictGet(ret.metadata, "act_year", S_empty) = S_1872
    /\ ret.value = TRUE

\* whether the stored chunk a candidate names passes the filter of the call
PassesFilter(cand) ==
    ret.filters = NoFilters \/ ApplyFilters(document_metadata[cand.idx + 1], ret.filters)

\* the candidates of the window that name a stored chunk passing the filter
PassingInWindow == SelectSeq(NonSentinel(ret.cands), PassesFilter)

\* C22: search on a built store returns, without error or padding, exactly
\* the first min(top_k, p) of the p candidates that pass the filter among
\* the 2*top_k nearest neighbours; a chunk outside that window is never
\* returned.
C22_ResultCount ==
    ret.op = "search" =>
        /\ ret.raised = "none"
        /\ Len(ret.cands) = 2 * ret.top_k
        /\ Len(ret.value) = MinOf(ret.top_k, Len(PassingInWindow))
        /\ \A n \in 1..Len(ret.value) :
            ret.value[n] = MakeResult(PassingInWindow[n],
                                      document_metadata[PassingInWindow[n].idx + 1])

\* a search that came back short of top_k although a stored chunk passes
\* the filter: that chunk is not among the 2*top_k nearest neighbours
C22_Witness ==
    /\ SearchReturned
    /\ Len(ret.value) < ret.top_k
    /\ \E pos \in 0..(Len(document_metadata) - 1) :
        /\ ApplyFilters(document_metadata[pos + 1], ret.filters)
        /\ \A i \in 1..Len(ret.cands) : ret.cands[i].idx # pos

\* C23: a build is a full overwrite: across every build_vector_store call
\* that succeeds, whatever was held before, documents is the chunks'
\* content and document_metadata the chunks' metadata, in input order, and
\* the index holds one vector per chunk, in that order.
C23_BuildOverwrites ==
    [][(BuildStep /\ ret'.raised = "none") =>
        /\ documents' = ContentsOf(ret'.chunks)
        /\ document_metadata' = MetadataOf(ret'.chunks)
        /\ index' = IndexOf(EmbedAll(ContentsOf(ret'.chunks)))]_vars

\* a build of a single chunk has succeeded: one document, one vector
C23_Witness ==
    /\ ret.op = "build"
    /\ ret.raised = "none"
    /\ Len(ret.chunks) = 1
    /\ Len(documents) = 1
    /\ index.present

\* C24: every SearchResult carries the chunk_id and the chunk_type of the
\* chunk of the built corpus it was made from.
C24_ResultCarriesChunkId ==
    (SearchReturned /\ persisted.valid) =>
        \A n \in 1..Len(ret.value) :
            LET chunk == persisted.chunks[PassingInWindow[n].idx + 1]
            IN  /\ ret.value[n].chunk_id = chunk.chunk_id
                /\ ret.value[n].chunk_type = chunk.chunk_type

\* user, assistant, user, assistant, ...: an even number of messages
Alternates(messages) ==
    /\ Len(messages) % 2 = 0
    /\ \A n \in 1..Len(messages) :
        messages[n].role = IF n % 2 = 1 THEN "user" ELSE "assistant"

C26_ChatOnlyWhenLoaded ==
    [][ret'.op = "main" =>
        /\ ~ret'.vector_store_loaded =>
              /\ ret'.chat = "not called"
              /\ ret'.prompt = NoPrompt
              /\ Messages' = Messages
        /\ ret'.chat # "not called" =>
              /\ ret'.vector_store_loaded
              /\ ret'.build = "not called"
              /\ index'.present
              /\ ret'.chat # "ValueError: Vector store not built or loaded"]_vars

\* a prompt was submitted from the chat page of a conversation, the files
\* could not be loaded in the run it started, and the run ended in the
\* build flow without handling it
C26_Witness ==
    /\ ret.op = "main"
    /\ ret.event = "submit"
    /\ ~ret.vector_store_loaded
    /\ ret.chat = "not called"
    /\ Len(Messages) = 2

\* C27: a load_vector_store call that returns False leaves the index,
\* the documents and the document_metadata of the system exactly as they
\* were before the call.
C27_FailedLoadLeavesStore ==
    [][(ret'.op = "load" /\ ret'.value = FALSE) =>
        UNCHANGED <<index, documents, document_metadata>>]_vars

\* C28 as claimed: search and get_chat_response, returning or raising,
\* leave the index, the documents, the document_metadata and the files
\* unchanged; on a system, only build_vector_store and load_vector_store
\* change them.
C28_OnlyBuildAndLoadChange ==
    [][/\ ret'.op \in {"search", "chat"} =>
            UNCHANGED <<index, documents, document_metadata, files>>
       /\ ~UNCHANGED <<index, documents, document_metadata, files>> => ret'.op \in {"build", "load", "init"}]_vars

\* C28, amended: search and get_chat_response, returning or raising, leave
\* the index, the documents, the document_metadata and the files
\* unchanged; on a system, only build_vector_store, save_vector_store and
\* load_vector_store change them.
C28_ReadOnlyCalls ==
    [][/\ ret'.op \in {"search", "chat"} =>
            UNCHANGED <<index, documents, document_metadata, files>>
       /\ ~UNCHANGED <<index, documents, document_metadata, files>> => ret'.op \in {"build", "save", "load", "init"}]_vars

\* get_chat_response has raised on a system that holds an index beside
\* arrays of another length, with the three files on disk
C28_Witness ==
    /\ ret.op = "chat"
    /\ ret.raised # "none"
    /\ index.present
    /\ Len(index.vectors) # Len(document_metadata)
    /\ files.index_faiss.exists
    /\ files.documents_pkl.exists
    /\ files.metadata_pkl.exists

\* C29: the build-in-progress flag does not get stuck: a build attempt
\* started with the Start button ends with building_vector_store False,
\* whether the build returned or raised, so that the flag is True at the
\* end of a script run only when that run asked for the rerun that builds;
\* and vector_store_built becomes True only in a run whose build returned.
C29_BuildFlagReset ==
    [][ret'.op = "main" =>
        /\ ret'.build # "not called" =>
              ~DictGet(session', "building_vector_store", FALSE)
        /\ ~widgets'.rerun =>
              ~DictGet(session', "building_vector_store", FALSE)
        /\ (/\ DictGet(session', "vector_store_built", FALSE)
            /\ ~DictGet(session, "vector_store_built", FALSE)) =>
              ret'.build = "none"]_vars

====
